---- MODULE Spec2Model ----
(***************************************************************************)
(* State-machine model of the auth service of bryanjeal/go-auth            *)
(* (src/service.go, the User model in src/unnamed/part_001).               *)
(*                                                                         *)
(* The user table, the one-time token (nonce) store and a wall clock are   *)
(* the shared state.  Two request goroutines call the service; a call     *)
(* that makes more than one round trip to the store (a SELECT followed by  *)
(* saveUser, or SELECT / CheckThenConsume / saveUser) is one action per    *)
(* round trip, so that calls of different requests interleave at exactly   *)
(* the points where the code lets them.                                    *)
(*                                                                         *)
(* Strings whose content the code inspects with strings.TrimSpace, or      *)
(* hashes and encodes, are sequences of one-character strings.  Email      *)
(* addresses are TLA+ strings; net/mail.ParseAddress is tabulated on the   *)
(* inputs the model draws.                                                 *)
(***************************************************************************)
EXTENDS Naturals, Sequences, FiniteSets, TLC

\* ------------------------------------------------------------------ bounds
\* Service calls started in one behaviour.
MaxOps == 3
\* Last value of the wall clock (the clock starts at 1 and counts periods of
\* three hours).
MaxTime == 2

\* The lifetime of a reset token, time.Hour*3, in periods of three hours.
ResetTTL == 1

\* The two concurrent requests.
Procs == {1, 2}

\* ---------------------------------------------------------------- strings
\* uuid.Nil; generated identifiers are 1, 2, ...
UuidNil == 0
\* time.Time{}, the zero time.
ZeroTime == 0

EmailInputs == {"a@x.io", "A <a@x.io>", "b@x.io", ""}
PasswordInputs == {<<"p">>, <<"q">>, <<" ">>}
\* The arguments of NewUserLocal: well-formed ones, and as in the test
\* NewUserLocalMalformed one argument empty or blank at a time.
NewUserLocalInputs ==
    ({"a@x.io", "A <a@x.io>", "b@x.io"} \X {<<"p">>, <<"q">>} \X {<<" ", "T">>} \X {<<"H">>})
    \cup {<<"", <<"p">>, <<"T">>, <<"H">>>>,
          <<"b@x.io", <<" ">>, <<"T">>, <<"H">>>>,
          <<"b@x.io", <<"p">>, <<" ">>, <<"H">>>>,
          <<"b@x.io", <<"p">>, <<"T">>, <<>>>>}

\* net/mail.ParseAddress on the addresses the model draws: a bare addr-spec
\* parses to itself, "name <addr>" parses to addr, the empty string is an error.
ParseAddress(s) ==
    CASE s = "a@x.io" -> [err |-> "nil", Address |-> "a@x.io"]
      [] s = "A <a@x.io>" -> [err |-> "nil", Address |-> "a@x.io"]
      [] s = "b@x.io" -> [err |-> "nil", Address |-> "b@x.io"]
      [] OTHER -> [err |-> "mail: no address", Address |-> ""]

RECURSIVE TrimLeft(_)
TrimLeft(s) ==
    IF s # <<>> /\ Head(s) = " " THEN TrimLeft(Tail(s)) ELSE s

RECURSIVE TrimRight(_)
TrimRight(s) ==
    IF s # <<>> /\ s[Len(s)] = " " THEN TrimRight(SubSeq(s, 1, Len(s) - 1)) ELSE s

\* strings.TrimSpace
TrimSpace(s) == TrimRight(TrimLeft(s))

\* helpers.Crypto.BCryptPasswordHasher: the hash of a password (the salt is
\* left out: every hash of a password verifies against that password only).
BCryptPasswordHasher(password) == <<"$2a$">> \o password

\* helpers.Crypto.BCryptCompareHashPassword: nil when hashed is a hash of password.
BCryptCompareHashPassword(hashed, password) ==
    IF hashed = BCryptPasswordHasher(password) THEN "nil" ELSE "bcrypt: mismatch"

\* base64.StdEncoding.EncodeToString
EncodeToString(bytes) == IF bytes = <<>> THEN <<>> ELSE <<"b64:">> \o bytes

\* base64.StdEncoding.DecodeString: a string that is not an encoding is an error.
DecodeString(s) ==
    IF s = <<>> THEN [err |-> "nil", bytes |-> <<>>]
    ELSE IF Head(s) = "b64:" THEN [err |-> "nil", bytes |-> Tail(s)]
    ELSE [err |-> "base64: illegal input", bytes |-> <<>>]

\* ------------------------------------------------------------------- state
VARIABLES
    users,   \* the user table: users[id] is the row with that id
    nonces,  \* the nonce store: nonces[t] is the token t
    now,     \* the wall clock, in periods of three hours
    proc,    \* proc[p]: where request p is in its call, and the call's locals
    last,    \* the call that returned last: its arguments and its result
    wins,    \* history: wins[t] counts the CompletePasswordReset calls that
             \* presented token t and returned without an error
    ops,     \* calls started so far
    session, \* the session of the one browser, as the session store keeps it
    req      \* the HTTP request being served, or the one served last

\* The variables of the HTTP transport.
httpVars == <<session, req>>

vars == <<users, nonces, now, proc, last, wins, ops, session, req>>

\* User{}: the zero value of the User struct.
ZeroUser ==
    [ID |-> UuidNil, Email |-> "", Password |-> <<>>, FirstName |-> <<>>,
     LastName |-> <<>>, IsActive |-> FALSE, IsSuperuser |-> FALSE,
     IsDeleted |-> FALSE, CreatedAt |-> ZeroTime, UpdatedAt |-> ZeroTime,
     DeletedAt |-> ZeroTime, AvatarURL |-> "", newPassword |-> FALSE,
     rawPassword |-> <<>>]

\* A row as the store keeps and returns it: the unexported fields newPassword
\* and rawPassword are no columns, a SELECT leaves them zero.
Row(u) == [u EXCEPT !.newPassword = FALSE, !.rawPassword = <<>>]

Ids == DOMAIN users

IdleProc ==
    [pc |-> "idle", email |-> "", password |-> <<>>,
     firstName |-> <<>>, lastName |-> <<>>, isSuperuser |-> FALSE,
     token |-> 0, u |-> ZeroUser]

NoCall ==
    [op |-> "none", email |-> "", token |-> 0, err |-> "nil", user |-> ZeroUser,
     mail |-> "none"]

\* What sess.Values["user"] can hold: nothing, a User, a *User, or a value of
\* another type.
NoValue == [kind |-> "absent", u |-> ZeroUser]
UserValue(u) == [kind |-> "User", u |-> u]
UserPointer(u) == [kind |-> "*User", u |-> u]
OtherValue == [kind |-> "other", u |-> ZeroUser]

\* A session nobody has written to, in a store of the given kind: "memory"
\* keeps the values as they are, "gob" keeps their gob encoding (the cookie
\* and filesystem stores).
NewSession(store) == [store |-> store, user |-> NoValue, flashes |-> {}]

\* var ctx *authCtx, and the context that getAuthCtx creates.
NilCtx == [nil |-> TRUE, User |-> ZeroUser, Data |-> FALSE, Flashes |-> {}]
NewCtx == [nil |-> FALSE, User |-> ZeroUser, Data |-> TRUE, Flashes |-> {}]

\* No request has been received.
NoRequest ==
    [pc |-> "idle", route |-> "", email |-> "", password |-> <<>>,
     sess |-> NewSession("memory"), rctx |-> [kind |-> "noValue", ctx |-> NilCtx],
     status |-> 0, location |-> "", trace |-> <<>>, n |-> 0]

\* ------------------------------------------------------------ the user table
Range(f) == {f[i] : i \in DOMAIN f}

\* SELECT * FROM user WHERE email=$1: sql.ErrNoRows when no row matches.
SelectByEmail(store, email) ==
    IF \E i \in DOMAIN store : store[i].Email = email
    THEN [err |-> "nil", u |-> store[CHOOSE i \in DOMAIN store : store[i].Email = email]]
    ELSE [err |-> "sql.ErrNoRows", u |-> ZeroUser]

\* SELECT * FROM user WHERE id=$1
SelectByID(store, id) ==
    IF id \in DOMAIN store
    THEN [err |-> "nil", u |-> store[id]]
    ELSE [err |-> "sql.ErrNoRows", u |-> ZeroUser]

\* Mutant: the table has no UNIQUE constraint on email.
EmailUniqueViolated_NoConstraint(store, email, id) == FALSE

\* CONSTRAINT "email_UNIQUE" UNIQUE("email"): does a row other than id hold email?
EmailUniqueViolated(store, email, id) ==
    \E i \in DOMAIN store : i # id /\ store[i].Email = email

\* Mutant: the parsed address is not written back to u.Email.
Validate_KeepsRawEmail(u) ==
    LET e == ParseAddress(u.Email) IN
    IF e.err # "nil" THEN [err |-> e.err, u |-> u]
    ELSE
      IF u.newPassword /\ Len(TrimSpace(u.rawPassword)) = 0
      THEN [err |-> "ErrInvalidPassword", u |-> u]
      ELSE
        LET u2 == [u EXCEPT !.FirstName = TrimSpace(@), !.LastName = TrimSpace(@)] IN
        IF Len(u2.FirstName) = 0 \/ Len(u2.LastName) = 0
        THEN [err |-> "ErrInvalidName", u |-> u2]
        ELSE [err |-> "nil", u |-> u2]

\* Mutant: the names are trimmed but not required.
Validate_SkipsNames(u) ==
    LET e == ParseAddress(u.Email) IN
    IF e.err # "nil" THEN [err |-> e.err, u |-> u]
    ELSE
      LET u1 == [u EXCEPT !.Email = e.Address] IN
      IF u1.newPassword /\ Len(TrimSpace(u1.rawPassword)) = 0
      THEN [err |-> "ErrInvalidPassword", u |-> u1]
      ELSE [err |-> "nil",
            u |-> [u1 EXCEPT !.FirstName = TrimSpace(@), !.LastName = TrimSpace(@)]]

\* User.Validate: the error, and the user as Validate leaves it.
Validate(u) ==
    LET e == ParseAddress(u.Email) IN
    IF e.err # "nil" THEN [err |-> e.err, u |-> u]
    ELSE
      LET u1 == [u EXCEPT !.Email = e.Address] IN
      IF u1.newPassword /\ Len(TrimSpace(u1.rawPassword)) = 0
      THEN [err |-> "ErrInvalidPassword", u |-> u1]
      ELSE
        LET u2 == [u1 EXCEPT !.FirstName = TrimSpace(@), !.LastName = TrimSpace(@)] IN
        IF Len(u2.FirstName) = 0 \/ Len(u2.LastName) = 0
        THEN [err |-> "ErrInvalidName", u |-> u2]
        ELSE [err |-> "nil", u |-> u2]

\* Mutant: no identifier is generated for a new row.
NewV4_Nil(store) == UuidNil

\* uuid.NewV4: a fresh identifier.
NewV4(store) == Len(store) + 1

\* Mutant: Validate's error is returned, but the row is written from the
\* user as the caller gave it, not as Validate left it.
saveUser_StoresUnvalidated(u, store) ==
    LET v == Validate(u) IN
    IF v.err # "nil" THEN [err |-> v.err, u |-> v.u, users |-> store]
    ELSE IF u.ID = UuidNil
    THEN
      LET n == [u EXCEPT !.ID = NewV4(store)] IN
      IF EmailUniqueViolated(store, n.Email, n.ID)
      THEN [err |-> "sql: UNIQUE constraint failed", u |-> n, users |-> store]
      ELSE [err |-> "nil", u |-> n, users |-> Append(store, Row(n))]
    ELSE
      IF u.ID \notin DOMAIN store
      THEN [err |-> "nil", u |-> u, users |-> store]
      ELSE IF EmailUniqueViolated(store, u.Email, u.ID)
      THEN [err |-> "sql: UNIQUE constraint failed", u |-> u, users |-> store]
      ELSE [err |-> "nil", u |-> u, users |-> [store EXCEPT ![u.ID] = Row(u)]]

\* authService.saveUser on the table store: the error, the user as saveUser
\* leaves it, and the table after the transaction (unchanged on an error).
saveUser(u, store) ==
    LET v == Validate(u) IN
    IF v.err # "nil" THEN [err |-> v.err, u |-> v.u, users |-> store]
    ELSE IF v.u.ID = UuidNil
    THEN
      LET n == [v.u EXCEPT !.ID = NewV4(store)] IN
      IF EmailUniqueViolated(store, n.Email, n.ID)
      THEN [err |-> "sql: UNIQUE constraint failed", u |-> n, users |-> store]
      ELSE [err |-> "nil", u |-> n, users |-> Append(store, Row(n))]
    ELSE
      IF v.u.ID \notin DOMAIN store
      THEN [err |-> "nil", u |-> v.u, users |-> store]
      ELSE IF EmailUniqueViolated(store, v.u.Email, v.u.ID)
      THEN [err |-> "sql: UNIQUE constraint failed", u |-> v.u, users |-> store]
      ELSE [err |-> "nil", u |-> v.u, users |-> [store EXCEPT ![v.u.ID] = Row(v.u)]]

\* authService.getUserByEmail, on the table store
getUserByEmail(store, email) ==
    LET r == SelectByEmail(store, email) IN
    IF r.err = "sql.ErrNoRows" THEN [err |-> "ErrIncorrectAuth", u |-> ZeroUser]
    ELSE [err |-> "nil", u |-> r.u]

\* Mutant: the nil identifier is looked up like any other.
GetUser_NoNilCheck(store, id) ==
    LET r == SelectByID(store, id) IN
    IF r.err = "sql.ErrNoRows" THEN [err |-> "ErrUserNotFound", u |-> ZeroUser]
    ELSE [err |-> "nil", u |-> r.u]

\* authService.GetUser, on the table store
GetUser(store, id) ==
    IF id = UuidNil THEN [err |-> "ErrInvalidID", u |-> ZeroUser]
    ELSE
      LET r == SelectByID(store, id) IN
      IF r.err = "sql.ErrNoRows" THEN [err |-> "ErrUserNotFound", u |-> ZeroUser]
      ELSE [err |-> "nil", u |-> r.u]

\* Mutant: the user is looked up before the password is looked at.
AuthenticateUser_LookupFirst(store, email, password) ==
    LET e == ParseAddress(email) IN
    IF e.err # "nil" THEN [err |-> e.err, u |-> ZeroUser]
    ELSE
      LET g == getUserByEmail(store, e.Address) IN
      IF g.err # "nil" THEN [err |-> g.err, u |-> ZeroUser]
      ELSE IF Len(TrimSpace(password)) = 0
      THEN [err |-> "ErrInvalidPassword", u |-> ZeroUser]
      ELSE
        LET hashed == DecodeString(g.u.Password) IN
        IF hashed.err # "nil" THEN [err |-> hashed.err, u |-> ZeroUser]
        ELSE IF BCryptCompareHashPassword(hashed.bytes, password) # "nil"
        THEN [err |-> "ErrIncorrectAuth", u |-> ZeroUser]
        ELSE [err |-> "nil", u |-> g.u]

\* authService.AuthenticateUser, on the table store
AuthenticateUser(store, email, password) ==
    LET e == ParseAddress(email) IN
    IF e.err # "nil" THEN [err |-> e.err, u |-> ZeroUser]
    ELSE IF Len(TrimSpace(password)) = 0
    THEN [err |-> "ErrInvalidPassword", u |-> ZeroUser]
    ELSE
      LET g == getUserByEmail(store, e.Address) IN
      IF g.err # "nil" THEN [err |-> g.err, u |-> ZeroUser]
      ELSE
        LET hashed == DecodeString(g.u.Password) IN
        IF hashed.err # "nil" THEN [err |-> hashed.err, u |-> ZeroUser]
        ELSE IF BCryptCompareHashPassword(hashed.bytes, password) # "nil"
        THEN [err |-> "ErrIncorrectAuth", u |-> ZeroUser]
        ELSE [err |-> "nil", u |-> g.u]

\* ------------------------------------------------------- the nonce service
\* The purpose tag of reset tokens.
PasswordReset == "auth.PasswordReset"

\* nonce.Service.New: the store with a fresh unused token for (action, uid)
\* that expires ttl periods from now; the new token is the last one.
NonceNew(store, action, uid, ttl) ==
    Append(store, [Action |-> action, UserID |-> uid, ExpiresAt |-> now + ttl,
                   IsUsed |-> FALSE])

\* Is token one that CheckThenConsume(token, action, uid) accepts now?
NonceValid(store, token, action, uid) ==
    /\ token \in DOMAIN store
    /\ store[token].Action = action
    /\ store[token].UserID = uid
    /\ ~store[token].IsUsed
    /\ now < store[token].ExpiresAt

\* nonce.Service.CheckThenConsume: check and invalidate in one indivisible step.
CheckThenConsume(store, token, action, uid) ==
    IF NonceValid(store, token, action, uid)
    THEN [err |-> "nil", nonces |-> [store EXCEPT ![token].IsUsed = TRUE]]
    ELSE [err |-> "nonce: invalid token", nonces |-> store]

\* ------------------------------------------------------------- the requests
Idle(p) == proc[p].pc = "idle" /\ ops < MaxOps

\* The call of request p returns err and user.
\* mail tells what became of the call's notification: "none" when the call
\* did not get to it, "sent", or "failed".
Return(op, email, token, err, user, mail) ==
    last' = [op |-> op, email |-> email, token |-> token, err |-> err,
             user |-> IF err = "nil" THEN user ELSE ZeroUser, mail |-> mail]

\* NewUserLocal, lines 97-104: the SELECT by the email as given.
NewUserLocalSelect(p, email, password, firstName, lastName, isSuperuser) ==
    /\ Idle(p)
    /\ ops' = ops + 1
    /\ LET e == SelectByEmail(users, email) IN
       IF e.err = "nil"
       THEN /\ proc' = [proc EXCEPT ![p] = IdleProc]
            /\ Return("NewUserLocal", email, 0, "ErrAlreadyExists", ZeroUser, "none")
       ELSE /\ proc' = [proc EXCEPT ![p] =
                   [IdleProc EXCEPT !.pc = "NewUserLocal:save",
                                    !.email = email, !.password = password,
                                    !.firstName = firstName, !.lastName = lastName,
                                    !.isSuperuser = isSuperuser]]
            /\ UNCHANGED last
    /\ UNCHANGED <<users, nonces, now, wins, httpVars>>

\* The User that NewUserLocal builds, lines 106-129 (the hasher's error is dropped).
NewUserLocalUser(email, password, firstName, lastName, isSuperuser, t) ==
    [ZeroUser EXCEPT
        !.Email = email,
        !.Password = EncodeToString(BCryptPasswordHasher(password)),
        !.FirstName = firstName, !.LastName = lastName,
        !.IsSuperuser = isSuperuser, !.IsActive = TRUE, !.IsDeleted = FALSE,
        !.CreatedAt = t, !.UpdatedAt = t, !.DeletedAt = ZeroTime,
        !.newPassword = TRUE, !.rawPassword = password]

\* Mutant: the error of the mail is returned to the caller.
AfterMail_ReturnsError(op, email, token, u, mailOK) ==
    IF mailOK THEN Return(op, email, token, "nil", u, "sent")
    ELSE Return(op, email, token, "mailgun: send failed", u, "failed")

\* What a call that has saved its user returns once it has tried to send its
\* mail, lines 137-163 and 342-368: the user and no error, whether the
\* template, the recipient and the transport worked (mailOK) or not.
AfterMail(op, email, token, u, mailOK) ==
    Return(op, email, token, "nil", u, IF mailOK THEN "sent" ELSE "failed")

\* NewUserLocal, lines 106-163: build the user, save it, send the welcome mail.
NewUserLocalSave(p, mailOK) ==
    /\ proc[p].pc = "NewUserLocal:save"
    /\ LET c == proc[p]
           u == NewUserLocalUser(c.email, c.password, c.firstName, c.lastName,
                                 c.isSuperuser, now)
           r == saveUser(u, users)
       IN /\ users' = r.users
          /\ proc' = [proc EXCEPT ![p] = IdleProc]
          /\ IF r.err # "nil"
             THEN Return("NewUserLocal", c.email, 0, r.err, ZeroUser, "none")
             ELSE AfterMail("NewUserLocal", c.email, 0, r.u, mailOK)
    /\ UNCHANGED <<nonces, now, wins, ops, httpVars>>

\* GetUser as a call of request p.
GetUserCall(p, id) ==
    /\ Idle(p)
    /\ ops' = ops + 1
    /\ proc' = [proc EXCEPT ![p] = IdleProc]
    /\ LET g == GetUser(users, id) IN Return("GetUser", "", 0, g.err, g.u, "none")
    /\ UNCHANGED <<users, nonces, now, wins, httpVars>>

\* AuthenticateUser as a call of request p.
AuthenticateUserCall(p, email, password) ==
    /\ Idle(p)
    /\ ops' = ops + 1
    /\ proc' = [proc EXCEPT ![p] = IdleProc]
    /\ LET a == AuthenticateUser(users, email, password) IN
       Return("AuthenticateUser", email, 0, a.err, a.u, "none")
    /\ UNCHANGED <<users, nonces, now, wins, httpVars>>

\* Mutant: the id of the row found is not compared with u.ID.
UpdateUserSelect_NoIdCheck(p, u) ==
    /\ Idle(p)
    /\ ops' = ops + 1
    /\ LET e == SelectByEmail(users, u.Email) IN
       IF e.err = "sql.ErrNoRows"
       THEN /\ proc' = [proc EXCEPT ![p] = IdleProc]
            /\ Return("UpdateUser", u.Email, 0, "ErrUserNotFound", ZeroUser, "none")
       ELSE /\ proc' = [proc EXCEPT ![p] =
                   [IdleProc EXCEPT !.pc = "UpdateUser:save",
                                    !.email = u.Email, !.u = u]]
            /\ UNCHANGED last
    /\ UNCHANGED <<users, nonces, now, wins, httpVars>>

\* UpdateUser, lines 194-205: the SELECT by u.Email and the comparison of ids.
UpdateUserSelect(p, u) ==
    /\ Idle(p)
    /\ ops' = ops + 1
    /\ LET e == SelectByEmail(users, u.Email)
           err == IF e.err = "sql.ErrNoRows" THEN "ErrUserNotFound"
                  ELSE IF e.u.ID # u.ID THEN "ErrInconsistentIDs" ELSE "nil"
       IN IF err # "nil"
          THEN /\ proc' = [proc EXCEPT ![p] = IdleProc]
               /\ Return("UpdateUser", u.Email, 0, err, ZeroUser, "none")
          ELSE /\ proc' = [proc EXCEPT ![p] =
                      [IdleProc EXCEPT !.pc = "UpdateUser:save",
                                       !.email = u.Email, !.u = u]]
               /\ UNCHANGED last
    /\ UNCHANGED <<users, nonces, now, wins, httpVars>>

\* UpdateUser, lines 207-212: save the user as the caller gave it.
UpdateUserSave(p) ==
    /\ proc[p].pc = "UpdateUser:save"
    /\ LET c == proc[p]
           r == saveUser(c.u, users)
       IN /\ users' = r.users
          /\ proc' = [proc EXCEPT ![p] = IdleProc]
          /\ Return("UpdateUser", c.email, 0, r.err, r.u, "none")
    /\ UNCHANGED <<nonces, now, wins, ops, httpVars>>

\* Mutant: a user that is flagged as deleted is reported as not found.
DeleteUserGet_RefusesDeleted(p, id) ==
    /\ Idle(p)
    /\ ops' = ops + 1
    /\ LET g == GetUser(users, id)
           err == IF g.err = "nil" /\ g.u.IsDeleted THEN "ErrUserNotFound" ELSE g.err
       IN IF err # "nil"
          THEN /\ proc' = [proc EXCEPT ![p] = IdleProc]
               /\ Return("DeleteUser", "", 0, err, ZeroUser, "none")
          ELSE /\ proc' = [proc EXCEPT ![p] =
                      [IdleProc EXCEPT !.pc = "DeleteUser:save", !.u = g.u]]
               /\ UNCHANGED last
    /\ UNCHANGED <<users, nonces, now, wins, httpVars>>

\* DeleteUser, lines 215-219: load the user by id.
DeleteUserGet(p, id) ==
    /\ Idle(p)
    /\ ops' = ops + 1
    /\ LET g == GetUser(users, id) IN
       IF g.err # "nil"
       THEN /\ proc' = [proc EXCEPT ![p] = IdleProc]
            /\ Return("DeleteUser", "", 0, g.err, ZeroUser, "none")
       ELSE /\ proc' = [proc EXCEPT ![p] =
                   [IdleProc EXCEPT !.pc = "DeleteUser:save", !.u = g.u]]
            /\ UNCHANGED last
    /\ UNCHANGED <<users, nonces, now, wins, httpVars>>

\* Mutant: the time of the deletion is not recorded.
DeleteUserSave_KeepsDeletedAt(p) ==
    /\ proc[p].pc = "DeleteUser:save"
    /\ LET c == proc[p]
           u == [c.u EXCEPT !.IsDeleted = TRUE]
           r == saveUser(u, users)
       IN /\ users' = r.users
          /\ proc' = [proc EXCEPT ![p] = IdleProc]
          /\ Return("DeleteUser", "", 0, r.err, r.u, "none")
    /\ UNCHANGED <<nonces, now, wins, ops, httpVars>>

\* DeleteUser, lines 221-230: flag the loaded user as deleted and save it.
DeleteUserSave(p) ==
    /\ proc[p].pc = "DeleteUser:save"
    /\ LET c == proc[p]
           u == [c.u EXCEPT !.IsDeleted = TRUE, !.DeletedAt = now]
           r == saveUser(u, users)
       IN /\ users' = r.users
          /\ proc' = [proc EXCEPT ![p] = IdleProc]
          /\ Return("DeleteUser", "", 0, r.err, r.u, "none")
    /\ UNCHANGED <<nonces, now, wins, ops, httpVars>>

\* Mutant: the token is issued before the user is looked up.
BeginPasswordReset_IssuesFirst(p, email, newOK, mailOK) ==
    /\ Idle(p)
    /\ ops' = ops + 1
    /\ proc' = [proc EXCEPT ![p] = IdleProc]
    /\ LET e == ParseAddress(email)
           g == getUserByEmail(users, e.Address)
       IN IF e.err # "nil"
          THEN /\ Return("BeginPasswordReset", email, 0, e.err, ZeroUser, "none")
               /\ UNCHANGED <<nonces, wins>>
          ELSE IF ~newOK
          THEN /\ Return("BeginPasswordReset", email, 0, "nonce: new failed",
                         ZeroUser, "none")
               /\ UNCHANGED <<nonces, wins>>
          ELSE /\ nonces' = NonceNew(nonces, PasswordReset, g.u.ID, ResetTTL)
               /\ wins' = Append(wins, 0)
               /\ IF g.err # "nil"
                  THEN Return("BeginPasswordReset", email, 0, g.err, ZeroUser, "none")
                  ELSE IF mailOK
                  THEN Return("BeginPasswordReset", email, Len(nonces) + 1, "nil",
                              ZeroUser, "sent")
                  ELSE Return("BeginPasswordReset", email, Len(nonces) + 1,
                              "mailgun: send failed", ZeroUser, "failed")
    /\ UNCHANGED <<users, now, httpVars>>

\* BeginPasswordReset: resolve the user, issue the token (nonce.New works,
\* newOK, or returns an error), send the mail; an error of the template, the
\* recipient or the transport (mailOK false) is returned, lines 285-305.
BeginPasswordReset(p, email, newOK, mailOK) ==
    /\ Idle(p)
    /\ ops' = ops + 1
    /\ proc' = [proc EXCEPT ![p] = IdleProc]
    /\ LET e == ParseAddress(email)
           g == getUserByEmail(users, e.Address)
       IN IF e.err # "nil"
          THEN /\ Return("BeginPasswordReset", email, 0, e.err, ZeroUser, "none")
               /\ UNCHANGED <<nonces, wins>>
          ELSE IF g.err # "nil"
          THEN /\ Return("BeginPasswordReset", email, 0, g.err, ZeroUser, "none")
               /\ UNCHANGED <<nonces, wins>>
          ELSE IF ~newOK
          THEN /\ Return("BeginPasswordReset", email, 0, "nonce: new failed",
                         ZeroUser, "none")
               /\ UNCHANGED <<nonces, wins>>
          ELSE /\ nonces' = NonceNew(nonces, PasswordReset, g.u.ID, ResetTTL)
               /\ wins' = Append(wins, 0)
               /\ IF mailOK
                  THEN Return("BeginPasswordReset", email, Len(nonces) + 1, "nil",
                              ZeroUser, "sent")
                  ELSE Return("BeginPasswordReset", email, Len(nonces) + 1,
                              "mailgun: send failed", ZeroUser, "failed")
    /\ UNCHANGED <<users, now, httpVars>>

\* CompletePasswordReset, lines 311-321: parse the email and load the user.
CompletePasswordResetGet(p, token, email, password) ==
    /\ Idle(p)
    /\ ops' = ops + 1
    /\ LET e == ParseAddress(email)
           g == getUserByEmail(users, e.Address)
           err == IF e.err # "nil" THEN e.err ELSE g.err
       IN IF err # "nil"
          THEN /\ proc' = [proc EXCEPT ![p] = IdleProc]
               /\ Return("CompletePasswordReset", email, token, err, ZeroUser, "none")
          ELSE /\ proc' = [proc EXCEPT ![p] =
                      [IdleProc EXCEPT !.pc = "CompletePasswordReset:consume",
                                       !.email = email, !.password = password,
                                       !.token = token, !.u = g.u]]
               /\ UNCHANGED last
    /\ UNCHANGED <<users, nonces, now, wins, httpVars>>

\* Mutant: the error of CheckThenConsume is not looked at.
CompletePasswordResetConsume_IgnoresError(p) ==
    /\ proc[p].pc = "CompletePasswordReset:consume"
    /\ LET c == proc[p]
           n == CheckThenConsume(nonces, c.token, PasswordReset, c.u.ID)
       IN /\ nonces' = n.nonces
          /\ proc' = [proc EXCEPT ![p].pc = "CompletePasswordReset:save"]
          /\ UNCHANGED last
    /\ UNCHANGED <<users, now, wins, ops, httpVars>>

\* Mutant: the new password is saved before the token is checked.
CompletePasswordResetConsume_SavesFirst(p) ==
    /\ proc[p].pc = "CompletePasswordReset:consume"
    /\ LET c == proc[p]
           w == [c.u EXCEPT !.Password = EncodeToString(BCryptPasswordHasher(c.password)),
                            !.newPassword = TRUE, !.rawPassword = c.password]
           n == CheckThenConsume(nonces, c.token, PasswordReset, c.u.ID)
       IN /\ users' = saveUser(w, users).users
          /\ nonces' = n.nonces
          /\ IF n.err # "nil"
             THEN /\ proc' = [proc EXCEPT ![p] = IdleProc]
                  /\ Return("CompletePasswordReset", c.email, c.token, n.err,
                            ZeroUser, "none")
             ELSE /\ proc' = [proc EXCEPT ![p].pc = "CompletePasswordReset:save"]
                  /\ UNCHANGED last
    /\ UNCHANGED <<now, wins, ops, httpVars>>

\* Mutant: the token is checked against its own subject, not against the
\* user that the email resolved to.
CompletePasswordResetConsume_AnySubject(p) ==
    /\ proc[p].pc = "CompletePasswordReset:consume"
    /\ LET c == proc[p]
           uid == IF c.token \in DOMAIN nonces THEN nonces[c.token].UserID ELSE c.u.ID
           n == CheckThenConsume(nonces, c.token, PasswordReset, uid)
       IN /\ nonces' = n.nonces
          /\ IF n.err # "nil"
             THEN /\ proc' = [proc EXCEPT ![p] = IdleProc]
                  /\ Return("CompletePasswordReset", c.email, c.token, n.err,
                            ZeroUser, "none")
             ELSE /\ proc' = [proc EXCEPT ![p].pc = "CompletePasswordReset:save"]
                  /\ UNCHANGED last
    /\ UNCHANGED <<users, now, wins, ops, httpVars>>

\* Mutant: the token is checked (nonce.Check) but not consumed.
CompletePasswordResetConsume_CheckOnly(p) ==
    /\ proc[p].pc = "CompletePasswordReset:consume"
    /\ LET c == proc[p]
           n == CheckThenConsume(nonces, c.token, PasswordReset, c.u.ID)
       IN /\ UNCHANGED nonces
          /\ IF n.err # "nil"
             THEN /\ proc' = [proc EXCEPT ![p] = IdleProc]
                  /\ Return("CompletePasswordReset", c.email, c.token, n.err,
                            ZeroUser, "none")
             ELSE /\ proc' = [proc EXCEPT ![p].pc = "CompletePasswordReset:save"]
                  /\ UNCHANGED last
    /\ UNCHANGED <<users, now, wins, ops, httpVars>>

\* CompletePasswordReset, lines 323-327: check and use the token.
CompletePasswordResetConsume(p) ==
    /\ proc[p].pc = "CompletePasswordReset:consume"
    /\ LET c == proc[p]
           n == CheckThenConsume(nonces, c.token, PasswordReset, c.u.ID)
       IN /\ nonces' = n.nonces
          /\ IF n.err # "nil"
             THEN /\ proc' = [proc EXCEPT ![p] = IdleProc]
                  /\ Return("CompletePasswordReset", c.email, c.token, n.err,
                            ZeroUser, "none")
             ELSE /\ proc' = [proc EXCEPT ![p].pc = "CompletePasswordReset:save"]
                  /\ UNCHANGED last
    /\ UNCHANGED <<users, now, wins, ops, httpVars>>

\* Mutant: the new hash is not assigned to u.Password.
CompletePasswordResetUser_KeepsPassword(u, password) ==
    [u EXCEPT !.newPassword = TRUE, !.rawPassword = password]

\* The user CompletePasswordReset saves, lines 329-335 (the hasher's error is
\* dropped).
CompletePasswordResetUser(u, password) ==
    [u EXCEPT !.Password = EncodeToString(BCryptPasswordHasher(password)),
              !.newPassword = TRUE, !.rawPassword = password]

\* Mutant: a reset that fails at the save hands the token back.
CompletePasswordResetSave_RestoresToken(p, mailOK) ==
    /\ proc[p].pc = "CompletePasswordReset:save"
    /\ LET c == proc[p]
           r == saveUser(CompletePasswordResetUser(c.u, c.password), users)
       IN /\ users' = r.users
          /\ proc' = [proc EXCEPT ![p] = IdleProc]
          /\ IF r.err # "nil"
             THEN /\ Return("CompletePasswordReset", c.email, c.token, r.err,
                            ZeroUser, "none")
                  /\ nonces' = [nonces EXCEPT ![c.token].IsUsed = FALSE]
                  /\ UNCHANGED wins
             ELSE /\ AfterMail("CompletePasswordReset", c.email, c.token, r.u, mailOK)
                  /\ wins' = [wins EXCEPT ![c.token] = @ + 1]
                  /\ UNCHANGED nonces
    /\ UNCHANGED <<now, ops, httpVars>>

\* CompletePasswordReset, lines 329-368: hash, save, send the confirmation.
CompletePasswordResetSave(p, mailOK) ==
    /\ proc[p].pc = "CompletePasswordReset:save"
    /\ LET c == proc[p]
           r == saveUser(CompletePasswordResetUser(c.u, c.password), users)
       IN /\ users' = r.users
          /\ proc' = [proc EXCEPT ![p] = IdleProc]
          /\ IF r.err # "nil"
             THEN /\ Return("CompletePasswordReset", c.email, c.token, r.err,
                            ZeroUser, "none")
                  /\ UNCHANGED wins
             ELSE /\ AfterMail("CompletePasswordReset", c.email, c.token, r.u, mailOK)
                  /\ wins' = [wins EXCEPT ![c.token] = @ + 1]
    /\ UNCHANGED <<nonces, now, ops, httpVars>>

\* Three hours pass.
Tick ==
    /\ now < MaxTime
    /\ now' = now + 1
    /\ UNCHANGED <<users, nonces, proc, last, wins, ops, httpVars>>

\* The User values a caller hands to UpdateUser: a stored row, or the value the
\* last call returned, as it is or with a field changed.
UpdateInputs ==
    LET base == Range(users) \cup (IF last.user.ID # UuidNil THEN {last.user} ELSE {}) IN
    UNION {
        {b,
         [b EXCEPT !.FirstName = <<" ", "N">>],
         [b EXCEPT !.LastName = <<" ">>],
         [b EXCEPT !.Password = <<"p">>],
         [b EXCEPT !.IsDeleted = FALSE, !.DeletedAt = ZeroTime],
         [b EXCEPT !.Email = "A <a@x.io>"],
         [b EXCEPT !.Email = "b@x.io"],
         [b EXCEPT !.ID = UuidNil]} : b \in base}

\* What becomes of the token and of the mail of a BeginPasswordReset: both
\* work, the mail fails, or nonce.New fails (and no mail is tried).
BeginInputs == {<<TRUE, TRUE>>, <<TRUE, FALSE>>, <<FALSE, TRUE>>}

TokenInputs == {0} \cup DOMAIN nonces
IdInputs == {UuidNil} \cup Ids \cup {Len(users) + 1}

\* The table after NewUserLocal(email, password, "T", "H", false) on store.
Registered(store, email, password) ==
    saveUser(NewUserLocalUser(email, password, <<"T">>, <<"H">>, FALSE, 1), store).users

\* A token that another user of the nonce service issued for its own purpose.
ForeignNonce ==
    [Action |-> "other.Purpose", UserID |-> 1, ExpiresAt |-> 1 + ResetTTL,
     IsUsed |-> FALSE]

\* The service is constructed over a table that is empty or that earlier
\* registrations have filled, and over a nonce service that is its own or
\* shared.
Init ==
    /\ LET one == Registered(<<>>, "a@x.io", <<"p">>) IN
       \/ users = <<>> /\ nonces = <<>>
       \/ users = one /\ nonces = <<>>
       \/ users = Registered(one, "b@x.io", <<"p">>) /\ nonces = <<ForeignNonce>>
    /\ wins = [t \in DOMAIN nonces |-> 0]
    /\ now = 1
    /\ proc = [p \in Procs |-> IdleProc]
    /\ last = NoCall
    /\ ops = 0
    /\ session = NewSession("memory")
    /\ req = NoRequest

Next ==
    \/ \E p \in Procs, i \in NewUserLocalInputs :
          NewUserLocalSelect(p, i[1], i[2], i[3], i[4], FALSE)
    \/ \E p \in Procs, mailOK \in BOOLEAN : NewUserLocalSave(p, mailOK)
    \/ \E p \in Procs, id \in IdInputs : GetUserCall(p, id)
    \/ \E p \in Procs, email \in EmailInputs, password \in PasswordInputs :
          AuthenticateUserCall(p, email, password)
    \/ \E p \in Procs, u \in UpdateInputs : UpdateUserSelect(p, u)
    \/ \E p \in Procs : UpdateUserSave(p)
    \/ \E p \in Procs, id \in IdInputs : DeleteUserGet(p, id)
    \/ \E p \in Procs : DeleteUserSave(p)
    \/ \E p \in Procs, email \in EmailInputs, ok \in BeginInputs :
          BeginPasswordReset(p, email, ok[1], ok[2])
    \/ \E p \in Procs, token \in TokenInputs, email \in {"a@x.io", "b@x.io", ""},
          password \in PasswordInputs :
          CompletePasswordResetGet(p, token, email, password)
    \/ \E p \in Procs : CompletePasswordResetConsume(p)
    \/ \E p \in Procs, mailOK \in BOOLEAN : CompletePasswordResetSave(p, mailOK)
    \/ Tick

Spec == Init /\ [][Next]_vars

\* ------------------------------------------------------ the HTTP transport
\* Requests served by one handler, one after the other.
MaxRequests == 3

\* What helpers.Ctx.Http.CtxGet(r, CtxKey) finds in the context of a request
\* that reaches ServeHTTP: no value (ErrCtxNoValue), another error, an
\* *authCtx that a handler upstream has put there, or a value of another type.
CtxInputs == {"noValue", "error", "authCtx", "other"}

RouteInputs == {"login", "loginPost", "logout", "register", "other"}

\* The form values of a POST to /login/.
LoginInputs ==
    {<<"a@x.io", <<"p">>>>, <<"a@x.io", <<"q">>>>, <<"b@x.io", <<"p">>>>, <<"", <<"p">>>>}

\* What a later Get finds of a value that Save has written: a gob store
\* encodes the value and decodes it as the type that was registered,
\* gob.Register(&User{}), a pointer to User.
Stored(store, v) ==
    IF store = "gob" /\ v.kind \in {"User", "*User"} THEN UserPointer(Row(v.u)) ELSE v

\* sess.Save(r, w)
Save(sess) == [sess EXCEPT !.user = Stored(sess.store, sess.user)]

\* getAuthCtx, on the value rctx that the request's context holds at CtxKey
getAuthCtx(rctx) ==
    IF rctx.kind = "error" THEN [ctx |-> NilCtx, err |-> "helpers: ctx error"]
    ELSE IF rctx.kind = "noValue" THEN [ctx |-> NilCtx, err |-> "nil"]
    ELSE IF rctx.kind = "authCtx" THEN [ctx |-> rctx.ctx, err |-> "nil"]
    ELSE [ctx |-> NewCtx, err |-> "nil"]

\* usr, ok := usrRaw.(User); if !ok { usr = User{} }
SessionUser(sess) == IF sess.user.kind = "User" THEN sess.user.u ELSE ZeroUser

\* ServeHTTP, lines 240-264, up to the call of the next handler.  The write to
\* ctx.Flashes through a nil ctx panics: the server drops the request, nothing
\* is saved and the next handler is not called.
ServeHTTP(kind, route, email, password) ==
    /\ req.pc = "idle"
    /\ req.n < MaxRequests
    /\ LET g == getAuthCtx([kind |-> kind, ctx |-> NewCtx])
           r == [NoRequest EXCEPT !.route = route, !.email = email,
                                  !.password = password, !.n = req.n + 1]
       IN IF g.ctx.nil
          THEN /\ req' = [r EXCEPT !.sess = session, !.rctx.kind = kind,
                                   !.trace = <<"panic">>]
               /\ UNCHANGED session
          ELSE LET sess == [session EXCEPT !.flashes = {}]
                   ctx == [g.ctx EXCEPT !.Flashes = session.flashes,
                                        !.User = SessionUser(session)]
               IN /\ session' = Save(sess)
                  /\ req' = [r EXCEPT !.pc = "next", !.sess = sess,
                                      !.rctx = [kind |-> "authCtx", ctx |-> ctx],
                                      !.trace = <<"Save", "next">>]
    /\ UNCHANGED <<users, nonces, now, proc, last, wins, ops>>

\* The handler has written its response; ServeHTTP returns after it.
Respond(sess, status, location, events) ==
    req' = [req EXCEPT !.pc = "idle", !.sess = sess, !.status = status,
                       !.location = location,
                       !.trace = req.trace \o events \o <<"return">>]

\* Login, lines 105-138, and Register, lines 182-207: a redirect for an active
\* user, the page otherwise.
Page(route) ==
    /\ req.pc = "next"
    /\ req.route = route
    /\ LET g == getAuthCtx(req.rctx) IN
       IF g.err # "nil" THEN Respond(req.sess, 500, "", <<>>)
       ELSE IF g.ctx.User.IsActive THEN Respond(req.sess, 302, "/", <<>>)
       ELSE Respond(req.sess, 200, "", <<>>)
    /\ UNCHANGED <<users, nonces, now, proc, last, wins, ops, session>>

\* LoginPost, lines 140-161.  After the redirect of a refused login the
\* handler goes on, stores the user that AuthenticateUser returned and saves
\* again; kept tells whether the store still takes a Save once the response
\* has been started.
LoginPost(kept) ==
    /\ req.pc = "next"
    /\ req.route = "loginPost"
    /\ LET a == AuthenticateUser(users, req.email, req.password)
           flashed == [req.sess EXCEPT !.flashes = @ \cup {"error"}]
           sess == [(IF a.err = "nil" THEN req.sess ELSE flashed)
                       EXCEPT !.user = UserValue(a.u)]
       IN IF a.err = "ErrIncorrectAuth"
          THEN /\ session' = IF kept THEN Save(sess) ELSE Save(flashed)
               /\ Respond(sess, 302, "/login", <<"Save", "Redirect", "Save", "Redirect">>)
          ELSE IF a.err # "nil"
          THEN /\ Respond(req.sess, 500, "", <<>>)
               /\ UNCHANGED session
          ELSE /\ session' = Save(sess)
               /\ Respond(sess, 302, "/", <<"Save", "Redirect">>)
    /\ UNCHANGED <<users, nonces, now, proc, last, wins, ops>>

\* Logout, lines 164-176.
Logout ==
    /\ req.pc = "next"
    /\ req.route = "logout"
    /\ LET sess == [req.sess EXCEPT !.flashes = @ \cup {"flash"}, !.user = NoValue] IN
       /\ session' = Save(sess)
       /\ Respond(sess, 302, "/login/", <<"Save", "Redirect">>)
    /\ UNCHANGED <<users, nonces, now, proc, last, wins, ops>>

\* A path that the router has no route for.
NotFound ==
    /\ req.pc = "next"
    /\ req.route = "other"
    /\ Respond(req.sess, 404, "", <<>>)
    /\ UNCHANGED <<users, nonces, now, proc, last, wins, ops, session>>

\* The sessions a browser can come with: a new one, one of a user who has
\* logged in, one whose "user" is not a User.
SessionInputs ==
    LET a == Registered(<<>>, "a@x.io", <<"p">>)[1] IN
    {[NewSession(st) EXCEPT !.user = v] :
        st \in {"memory", "gob"}, v \in {NoValue, OtherValue, UserValue(a)}}

\* The handler of MakeHTTPHandler over a service with two registered users.
InitHTTP ==
    /\ users = Registered(Registered(<<>>, "a@x.io", <<"p">>), "b@x.io", <<"p">>)
    /\ nonces = <<>>
    /\ wins = <<>>
    /\ now = 1
    /\ proc = [p \in Procs |-> IdleProc]
    /\ last = NoCall
    /\ ops = 0
    /\ \E s0 \in SessionInputs : session = Save(s0)
    /\ req = NoRequest

NextHTTP ==
    \/ \E kind \in CtxInputs, route \in RouteInputs, f \in LoginInputs :
          ServeHTTP(kind, route, f[1], f[2])
    \/ Page("login")
    \/ Page("register")
    \/ \E kept \in BOOLEAN : LoginPost(kept)
    \/ Logout
    \/ NotFound

SpecHTTP == InitHTTP /\ [][NextHTTP]_vars

\* ------------------------------------------------- the hasher that can fail
\* helpers.Crypto.BCryptPasswordHasher with its outcome as an input: the hash
\* and no error, or no hash (nil) and an error, as bcrypt.GenerateFromPassword
\* returns for a cost out of range or a password that is too long.
PasswordHasher(password, hashOK) ==
    IF hashOK THEN [hashed |-> BCryptPasswordHasher(password), err |-> "nil"]
    ELSE [hashed |-> <<>>, err |-> "bcrypt: failed"]

\* NewUserLocal as one call, lines 97-163, with the outcome of the hasher:
\* err of line 110 is assigned again at line 132 before it is read.
NewUserLocalHashed(p, email, password, firstName, lastName, hashOK, mailOK) ==
    /\ Idle(p)
    /\ ops' = ops + 1
    /\ LET e == SelectByEmail(users, email)
           h == PasswordHasher(password, hashOK)
           u == [NewUserLocalUser(email, password, firstName, lastName, FALSE, now)
                   EXCEPT !.Password = EncodeToString(h.hashed)]
           r == saveUser(u, users)
       IN IF e.err = "nil"
          THEN /\ Return("NewUserLocal", email, 0, "ErrAlreadyExists", ZeroUser, "none")
               /\ UNCHANGED users
          ELSE /\ users' = r.users
               /\ IF r.err # "nil"
                  THEN Return("NewUserLocal", email, 0, r.err, ZeroUser, "none")
                  ELSE AfterMail("NewUserLocal", email, 0, r.u, mailOK)
    /\ UNCHANGED <<nonces, now, proc, wins, httpVars>>

\* CompletePasswordReset as one call, lines 310-368, with the outcome of the
\* hasher: err of line 330 is assigned again at line 337 before it is read.
CompletePasswordResetHashed(p, token, email, password, hashOK, mailOK) ==
    /\ Idle(p)
    /\ ops' = ops + 1
    /\ LET e == ParseAddress(email)
           g == getUserByEmail(users, e.Address)
           n == CheckThenConsume(nonces, token, PasswordReset, g.u.ID)
           h == PasswordHasher(password, hashOK)
           u == [CompletePasswordResetUser(g.u, password)
                   EXCEPT !.Password = EncodeToString(h.hashed)]
           r == saveUser(u, users)
       IN IF e.err # "nil" \/ g.err # "nil"
          THEN /\ Return("CompletePasswordReset", email, token,
                         IF e.err # "nil" THEN e.err ELSE g.err, ZeroUser, "none")
               /\ UNCHANGED <<users, nonces, wins>>
          ELSE IF n.err # "nil"
          THEN /\ Return("CompletePasswordReset", email, token, n.err, ZeroUser, "none")
               /\ UNCHANGED <<users, nonces, wins>>
          ELSE /\ nonces' = n.nonces
               /\ users' = r.users
               /\ IF r.err # "nil"
                  THEN /\ Return("CompletePasswordReset", email, token, r.err,
                                 ZeroUser, "none")
                       /\ UNCHANGED wins
                  ELSE /\ AfterMail("CompletePasswordReset", email, token, r.u, mailOK)
                       /\ wins' = [wins EXCEPT ![token] = @ + 1]
    /\ UNCHANGED <<now, proc, httpVars>>

\* Calls made one after the other to a service whose hasher can fail.
NextHash ==
    \/ \E p \in Procs, i \in NewUserLocalInputs, hashOK \in BOOLEAN, mailOK \in BOOLEAN :
          NewUserLocalHashed(p, i[1], i[2], i[3], i[4], hashOK, mailOK)
    \/ \E p \in Procs, email \in EmailInputs, ok \in BeginInputs :
          BeginPasswordReset(p, email, ok[1], ok[2])
    \/ \E p \in Procs, token \in TokenInputs, email \in {"a@x.io", "b@x.io", ""},
          password \in PasswordInputs, hashOK \in BOOLEAN, mailOK \in BOOLEAN :
          CompletePasswordResetHashed(p, token, email, password, hashOK, mailOK)
    \/ \E p \in Procs, email \in EmailInputs, password \in PasswordInputs :
          AuthenticateUserCall(p, email, password)

SpecHash == Init /\ [][NextHash]_vars

\* ---------------------------------------------------------------- the claims
\* Request p takes the first step of a CompletePasswordReset and goes on.
CompleteGetStep(p) ==
    /\ proc[p].pc = "idle"
    /\ proc'[p].pc = "CompletePasswordReset:consume"

\* Request p takes the consume step of its CompletePasswordReset.
ConsumeStep(p) ==
    /\ proc[p].pc = "CompletePasswordReset:consume"
    /\ proc'[p].pc # "CompletePasswordReset:consume"

\* Request p takes the last step of its CompletePasswordReset, the save.
CompleteSaveStep(p) ==
    /\ proc[p].pc = "CompletePasswordReset:save"
    /\ proc'[p].pc = "idle"

\* The token that request p presents was issued by BeginPasswordReset for the
\* user the call resolved, is within its lifetime and has not been consumed.
PresentsValidToken(p) ==
    LET c == proc[p] IN
    /\ c.token \in DOMAIN nonces
    /\ nonces[c.token].Action = PasswordReset
    /\ nonces[c.token].UserID = c.u.ID
    /\ now < nonces[c.token].ExpiresAt
    /\ ~nonces[c.token].IsUsed

NonBlank(s) == TrimSpace(s) # <<>>

C1_Step(p) ==
    LET c == proc[p] IN
    /\ (ConsumeStep(p) /\ PresentsValidToken(p))
         => proc'[p].pc = "CompletePasswordReset:save"
    /\ (CompleteSaveStep(p) /\ NonBlank(c.password))
         => /\ last'.op = "CompletePasswordReset"
            /\ last'.err = "nil"
            /\ AuthenticateUser(users', c.email, c.password).err = "nil"
            /\ \A old \in PasswordInputs :
                  (NonBlank(old) /\ old # c.password)
                    => AuthenticateUser(users', c.email, old).err = "ErrIncorrectAuth"

C2_Step(p) ==
    LET c == proc[p] IN
    (ConsumeStep(p) /\ c.token \in DOMAIN wins /\ wins[c.token] > 0)
      => /\ proc'[p].pc = "idle"
         /\ last'.op = "CompletePasswordReset"
         /\ last'.err = "nonce: invalid token"
         /\ users' = users
         /\ \A pw \in PasswordInputs :
               AuthenticateUser(users', c.email, pw) = AuthenticateUser(users, c.email, pw)

\* C2: once a CompletePasswordReset with a token has returned without an
\* error, every CompletePasswordReset that presents the same token returns the
\* invalid-token error at its token check and leaves the user table, and so
\* the outcome of AuthenticateUser with any password, as it was.
C2_TokenSingleUse == [][\A p \in Procs : C2_Step(p)]_vars

\* A second CompletePasswordReset with a token that already won has returned.
C2_Witness ==
    /\ last.op = "CompletePasswordReset"
    /\ last.err = "nonce: invalid token"
    /\ last.token \in DOMAIN wins
    /\ wins[last.token] = 1
    /\ nonces[last.token].UserID = getUserByEmail(users, last.email).u.ID

C3_Step(p) ==
    /\ (ConsumeStep(p) /\ ~PresentsValidToken(p))
         => /\ proc'[p].pc = "idle"
            /\ last'.op = "CompletePasswordReset"
            /\ last'.err # "nil"
            /\ last'.user = ZeroUser
            /\ users' = users
    /\ (CompleteGetStep(p) \/ ConsumeStep(p)) => users' = users

\* C3: no step of CompletePasswordReset up to and including the token check
\* writes the user table; when the token presented is unknown, expired,
\* consumed, or bound to another subject or purpose, the call returns an error
\* at the token check and the table is as it was.
C3_FailedConsumeWritesNothing == [][\A p \in Procs : C3_Step(p)]_vars

\* A CompletePasswordReset with an expired, unconsumed token of its own user
\* has returned the invalid-token error.
C3_Witness ==
    /\ last.op = "CompletePasswordReset"
    /\ last.err = "nonce: invalid token"
    /\ last.token \in DOMAIN nonces
    /\ nonces[last.token].Action = PasswordReset
    /\ nonces[last.token].UserID = getUserByEmail(users, last.email).u.ID
    /\ ~nonces[last.token].IsUsed
    /\ now >= nonces[last.token].ExpiresAt

C4_Step(p) ==
    LET c == proc[p] IN
    /\ (ConsumeStep(p) /\ c.token \in DOMAIN nonces /\ nonces[c.token].UserID # c.u.ID)
         => /\ proc'[p].pc = "idle"
            /\ last'.err # "nil"
            /\ users' = users
    /\ (CompleteSaveStep(p) /\ last'.err = "nil")
         => /\ nonces[c.token].UserID = c.u.ID
            /\ \A i \in DOMAIN users : i # c.u.ID => users'[i] = users[i]

\* C4: a CompletePasswordReset for user B that presents a token issued for
\* another user A returns an error at the token check and leaves every row
\* as it was; a CompletePasswordReset that returns without an error presented
\* a token issued for its own user and changed no other user's row.
C4_TokenBoundToSubject == [][\A p \in Procs : C4_Step(p)]_vars

\* A CompletePasswordReset for b@x.io with an unexpired, unconsumed reset
\* token of a@x.io has been refused.
C4_Witness ==
    /\ last.op = "CompletePasswordReset"
    /\ last.err = "nonce: invalid token"
    /\ last.email = "b@x.io"
    /\ last.token \in DOMAIN nonces
    /\ nonces[last.token].Action = PasswordReset
    /\ nonces[last.token].UserID = getUserByEmail(users, "a@x.io").u.ID
    /\ ~nonces[last.token].IsUsed
    /\ now < nonces[last.token].ExpiresAt

\* The token that request p presents is a reset token of the user the call
\* resolved, within its lifetime, that another call has consumed.
PresentsConsumedToken(p) ==
    LET c == proc[p] IN
    /\ c.token \in DOMAIN nonces
    /\ nonces[c.token].Action = PasswordReset
    /\ nonces[c.token].UserID = c.u.ID
    /\ now < nonces[c.token].ExpiresAt
    /\ nonces[c.token].IsUsed

\* What C5 says of the calls that lose the race for the token.
C5_Loser(p) ==
    (ConsumeStep(p) /\ PresentsConsumedToken(p))
      => /\ proc'[p].pc = "idle"
         /\ last'.op = "CompletePasswordReset"
         /\ last'.err = "nonce: invalid token"
         /\ users' = users

C5_StepOriginal(p) ==
    LET c == proc[p] IN
    /\ C5_Loser(p)
    /\ (ConsumeStep(p) /\ PresentsValidToken(p))
         => proc'[p].pc = "CompletePasswordReset:save"
    /\ CompleteSaveStep(p)
         => /\ last'.err = "nil"
            /\ wins[c.token] = 0
            /\ users'[c.u.ID].Password = EncodeToString(BCryptPasswordHasher(c.password))

C5_StepAmended(p) ==
    LET c == proc[p] IN
    /\ C5_Loser(p)
    /\ (ConsumeStep(p) /\ PresentsValidToken(p))
         => proc'[p].pc = "CompletePasswordReset:save"
    /\ CompleteSaveStep(p)
         => /\ NonBlank(c.password) => last'.err = "nil"
            /\ last'.err = "nil"
                 => /\ wins[c.token] = 0
                    /\ users'[c.u.ID].Password =
                         EncodeToString(BCryptPasswordHasher(c.password))
            /\ last'.err # "nil"
                 => /\ last'.err = "ErrInvalidPassword"
                    /\ users' = users

NewUserLocalSaveStep(p) ==
    /\ proc[p].pc = "NewUserLocal:save"
    /\ proc'[p].pc = "idle"

\* A row of the table holds the address that the email parses to.
Occupied(store, email) ==
    \E i \in DOMAIN store : store[i].Email = ParseAddress(email).Address

C6_Step(p) ==
    LET c == proc[p] IN
    (/\ NewUserLocalSaveStep(p)
     /\ ParseAddress(c.email).err = "nil"
     /\ NonBlank(c.password) /\ NonBlank(c.firstName) /\ NonBlank(c.lastName)
     /\ ~Occupied(users, c.email))
      => /\ last'.op = "NewUserLocal"
         /\ last'.err = "nil"
         /\ LET a == AuthenticateUser(users', c.email, c.password) IN
            /\ a.err = "nil"
            /\ a.u.Email = ParseAddress(c.email).Address
            /\ a.u.ID = last'.user.ID
            /\ a.u.ID # UuidNil

\* C6: a NewUserLocal with a parsable email, a non-blank password and
\* non-blank names, saving when no row holds the parsed address, returns no
\* error, and AuthenticateUser with the same email and password then succeeds
\* with a user whose email is the parsed address and whose id is the id that
\* NewUserLocal returned.
C6_RegisterThenAuthenticate == [][\A p \in Procs : C6_Step(p)]_vars

\* A registration with an address in name-addr form has returned, and the same
\* email and password authenticate.
C6_Witness ==
    /\ last.op = "NewUserLocal"
    /\ last.err = "nil"
    /\ last.email = "A <a@x.io>"
    /\ last.user.Email = "a@x.io"
    /\ AuthenticateUser(users, last.email, last.user.rawPassword).err = "nil"

\* C7 as claimed: AuthenticateUser with a parsable email and a non-blank
\* password either succeeds or returns the zero User and ErrIncorrectAuth,
\* whether or not a row has that email.
C7_AuthFailuresIndistinguishable ==
    \A email \in EmailInputs, password \in PasswordInputs :
        (ParseAddress(email).err = "nil" /\ NonBlank(password))
          => LET a == AuthenticateUser(users, email, password) IN
             a.err = "nil" \/ a = [err |-> "ErrIncorrectAuth", u |-> ZeroUser]

\* C8 as claimed: AuthenticateUser with the email of a row that is flagged as
\* deleted and the password whose hash the row stores returns ErrIncorrectAuth.
C8_DeletedNotAuthenticatable ==
    \A i \in DOMAIN users, password \in PasswordInputs :
        (/\ users[i].IsDeleted
         /\ NonBlank(password)
         /\ users[i].Password = EncodeToString(BCryptPasswordHasher(password)))
          => AuthenticateUser(users, users[i].Email, password).err = "ErrIncorrectAuth"

\* A NewUserLocal returns from its first step.
NewUserLocalSelectReturns ==
    /\ ops' = ops + 1
    /\ proc' = proc
    /\ last'.op = "NewUserLocal"

C9_Step(p) ==
    LET c == proc[p] IN
    (NewUserLocalSaveStep(p) /\ ParseAddress(c.email).err = "nil" /\ Occupied(users, c.email))
      => /\ last'.err = "ErrAlreadyExists"
         /\ users' = users

\* C9 as claimed: a NewUserLocal for an address that a row already holds
\* returns ErrAlreadyExists and leaves the table, the first row included, as it
\* was.
C9_DuplicateIsAlreadyExists ==
    [][/\ NewUserLocalSelectReturns => (last'.err = "ErrAlreadyExists" /\ users' = users)
       /\ \A p \in Procs : C9_Step(p)]_vars

EmailUnique(store) ==
    \A i, j \in DOMAIN store : i # j => store[i].Email # store[j].Email

C10_Step(p) ==
    LET c == proc[p] IN
    (NewUserLocalSaveStep(p) /\ ParseAddress(c.email).err = "nil" /\ Occupied(users, c.email))
      => /\ last'.err # "nil"
         /\ users' = users

\* C10: no two rows of the table ever have the same email, under every
\* interleaving of the calls of two requests; a NewUserLocal for an address
\* that a row holds, deleted or not, returns an error and adds no row.
C10_EmailUnique ==
    /\ EmailUnique(users)
    /\ [][/\ EmailUnique(users')
          /\ NewUserLocalSelectReturns => (last'.err # "nil" /\ users' = users)
          /\ \A p \in Procs : C10_Step(p)]_vars

\* A registration of the address of a row that is flagged as deleted has been
\* refused.
C10_Witness ==
    /\ last.op = "NewUserLocal"
    /\ last.err # "nil"
    /\ \E i \in DOMAIN users :
          /\ users[i].IsDeleted
          /\ users[i].Email = ParseAddress(last.email).Address

C11_Step(p, u) ==
    UpdateUserSelect(p, u)
      => /\ (\A i \in DOMAIN users : users[i].Email # u.Email)
              => /\ proc'[p].pc = "idle"
                 /\ last' = [NoCall EXCEPT !.op = "UpdateUser", !.email = u.Email,
                                           !.err = "ErrUserNotFound"]
                 /\ users' = users
         /\ (\E i \in DOMAIN users : users[i].Email = u.Email /\ users[i].ID # u.ID)
              => /\ proc'[p].pc = "idle"
                 /\ last' = [NoCall EXCEPT !.op = "UpdateUser", !.email = u.Email,
                                           !.err = "ErrInconsistentIDs"]
                 /\ users' = users

\* C11: UpdateUser(u) returns the zero User and ErrUserNotFound when no row
\* has u.Email, and the zero User and ErrInconsistentIDs when the row with
\* u.Email has an id other than u.ID; in both cases no row of the table
\* changes.
C11_UpdateUserErrors ==
    [][\A p \in Procs : \A u \in UpdateInputs : C11_Step(p, u)]_vars

\* An UpdateUser with the id of one row and the email of another has been
\* refused, and both rows are as they were registered.
C11_Witness ==
    /\ last.op = "UpdateUser"
    /\ last.err = "ErrInconsistentIDs"
    /\ last.email = "b@x.io"
    /\ users = Registered(Registered(<<>>, "a@x.io", <<"p">>), "b@x.io", <<"p">>)

\* Request p takes the last step of its DeleteUser, the save.
DeleteUserSaveStep(p) ==
    /\ proc[p].pc = "DeleteUser:save"
    /\ proc'[p].pc = "idle"

C12_Step(p) ==
    LET c == proc[p]
        id == c.u.ID
    IN (DeleteUserSaveStep(p) /\ last'.err = "nil")
         => /\ last'.op = "DeleteUser"
            /\ DOMAIN users' = DOMAIN users
            /\ last'.user.IsDeleted /\ last'.user.DeletedAt # ZeroTime
            /\ LET g == GetUser(users', id) IN
               /\ g.err = "nil"
               /\ g.u.IsDeleted /\ g.u.DeletedAt # ZeroTime
               /\ [g.u EXCEPT !.IsDeleted = c.u.IsDeleted,
                              !.DeletedAt = c.u.DeletedAt] = c.u
               /\ g.u = last'.user
            /\ \A i \in DOMAIN users : i # id => users'[i] = users[i]

\* C12: when DeleteUser(id) returns without an error, the table has the same
\* ids as before and every other row is untouched; the user returned and the
\* user that GetUser(id) then returns have IsDeleted set and a DeletedAt that
\* is not the zero time, and every other field has the value the call read
\* when it loaded the user.
C12_SoftDelete == [][\A p \in Procs : C12_Step(p)]_vars

\* A DeleteUser of a user that was not deleted has returned.
C12_Witness ==
    /\ last.op = "DeleteUser"
    /\ last.err = "nil"
    /\ last.user.ID \in DOMAIN users
    /\ users[last.user.ID].IsDeleted
    /\ \E i \in DOMAIN users : ~users[i].IsDeleted

C13_Step(p) ==
    LET c == proc[p] IN
    /\ \A id \in DOMAIN users :
          (DeleteUserGet(p, id) /\ users[id].IsDeleted)
            => /\ proc'[p].pc = "DeleteUser:save"
               /\ proc'[p].u = users[id]
    /\ (DeleteUserSaveStep(p) /\ c.u.IsDeleted)
         => /\ last'.op = "DeleteUser"
            /\ last'.err = "nil"
            /\ users'[c.u.ID].IsDeleted
            /\ [users'[c.u.ID] EXCEPT !.DeletedAt = c.u.DeletedAt] = c.u
            /\ last'.user = users'[c.u.ID]

\* C13: a DeleteUser(id) of a user that is already flagged as deleted is not
\* refused: it returns without an error, the row stays flagged, and every
\* field but DeletedAt keeps the value it had after the first deletion.
C13_DeleteIdempotent == [][\A p \in Procs : C13_Step(p)]_vars

\* A DeleteUser of a user has returned, and a second DeleteUser of the same
\* user has loaded the row that is flagged as deleted and is about to save it.
C13_Witness ==
    \E p \in Procs :
        /\ proc[p].pc = "DeleteUser:save"
        /\ proc[p].u.IsDeleted
        /\ last.op = "DeleteUser"
        /\ last.err = "nil"
        /\ last.user.ID = proc[p].u.ID
        /\ proc[p].u.DeletedAt < now

C14_Step(p, id) ==
    /\ GetUserCall(p, id)
         => /\ last'.op = "GetUser"
            /\ users' = users
            /\ id = UuidNil => (last'.err = "ErrInvalidID" /\ last'.user = ZeroUser)
            /\ (id # UuidNil /\ id \notin DOMAIN users)
                 => (last'.err = "ErrUserNotFound" /\ last'.user = ZeroUser)
            /\ id \in DOMAIN users => (last'.err = "nil" /\ last'.user = users[id])
    /\ DeleteUserGet(p, id)
         => /\ users' = users
            /\ id = UuidNil
                 => /\ proc'[p].pc = "idle"
                    /\ last' = [NoCall EXCEPT !.op = "DeleteUser", !.err = "ErrInvalidID"]
            /\ (id # UuidNil /\ id \notin DOMAIN users)
                 => /\ proc'[p].pc = "idle"
                    /\ last' = [NoCall EXCEPT !.op = "DeleteUser", !.err = "ErrUserNotFound"]

\* C14: GetUser(id) returns ErrInvalidID for the nil identifier,
\* ErrUserNotFound for another identifier that no row has, and otherwise the
\* row with that id; DeleteUser returns ErrInvalidID and ErrUserNotFound in the
\* same cases; neither changes the table then.
C14_GetUserResults ==
    [][\A p \in Procs : \A id \in IdInputs : C14_Step(p, id)]_vars

\* A DeleteUser with the nil identifier has been refused on a table with rows.
C14_Witness ==
    /\ last.op = "DeleteUser"
    /\ last.err = "ErrInvalidID"
    /\ users # <<>>

C15_Step(p, email, password) ==
    AuthenticateUserCall(p, email, password)
      => /\ users' = users
         /\ ParseAddress(email).err # "nil"
              => last' = [NoCall EXCEPT !.op = "AuthenticateUser", !.email = email,
                                        !.err = ParseAddress(email).err]
         /\ (ParseAddress(email).err = "nil" /\ ~NonBlank(password))
              => last' = [NoCall EXCEPT !.op = "AuthenticateUser", !.email = email,
                                        !.err = "ErrInvalidPassword"]

\* C15: AuthenticateUser returns the address parser's error for an email that
\* does not parse, and ErrInvalidPassword for a parsable email with a password
\* that is empty once trimmed, whatever rows the table holds and whatever
\* they store as password.
C15_AuthenticateValidatesFirst ==
    [][\A p \in Procs : \A email \in EmailInputs : \A password \in PasswordInputs :
          C15_Step(p, email, password)]_vars

\* A blank password has been refused for the email of a row, and another
\* address has no row.
C15_Witness ==
    /\ last.op = "AuthenticateUser"
    /\ last.err = "ErrInvalidPassword"
    /\ Occupied(users, last.email)
    /\ \E email \in EmailInputs :
          ParseAddress(email).err = "nil" /\ ~Occupied(users, email)

\* The arguments of the NewUserLocal of request p are malformed.
Malformed(c) ==
    \/ ParseAddress(c.email).err # "nil"
    \/ ~NonBlank(c.password)
    \/ ~NonBlank(c.firstName)
    \/ ~NonBlank(c.lastName)

C16_Step(p) ==
    /\ (proc[p].pc = "idle" /\ proc'[p].pc = "NewUserLocal:save") => users' = users
    /\ (NewUserLocalSaveStep(p) /\ Malformed(proc[p]))
         => /\ last'.op = "NewUserLocal"
            /\ last'.err # "nil"
            /\ last'.user = ZeroUser
            /\ users' = users

\* C16: a NewUserLocal whose email does not parse, or whose password, first
\* name or last name is empty once trimmed, returns an error and the zero
\* User, and the table has the rows it had before.
C16_MalformedRegistrationRejected == [][\A p \in Procs : C16_Step(p)]_vars

\* A registration with a blank name has been refused.
C16_Witness ==
    /\ last.op = "NewUserLocal"
    /\ last.err = "ErrInvalidName"
    /\ last.email = "b@x.io"

C17_Step(p) ==
    LET c == proc[p]
        n == saveUser(NewUserLocalUser(c.email, c.password, c.firstName, c.lastName,
                                       c.isSuperuser, now), users)
        r == saveUser(CompletePasswordResetUser(c.u, c.password), users)
    IN
    /\ (NewUserLocalSave(p, FALSE) /\ n.err = "nil")
         => /\ last'.op = "NewUserLocal"
            /\ last'.err = "nil"
            /\ last'.mail = "failed"
            /\ last'.user = n.u
            /\ n.u.ID \notin DOMAIN users
            /\ n.u.ID \in DOMAIN users'
            /\ users'[n.u.ID] = Row(n.u)
    /\ (CompletePasswordResetSave(p, FALSE) /\ r.err = "nil")
         => /\ last'.op = "CompletePasswordReset"
            /\ last'.err = "nil"
            /\ last'.mail = "failed"
            /\ last'.user = r.u
            /\ users'[c.u.ID] = Row(r.u)
            /\ users'[c.u.ID].Password = EncodeToString(BCryptPasswordHasher(c.password))

\* C17: when NewUserLocal or CompletePasswordReset has saved its row and the
\* notification then fails (template, recipient or transport), the call
\* returns the saved User and no error, and the table holds the row as saved.
C17_NotificationFailureNonFatal == [][\A p \in Procs : C17_Step(p)]_vars

\* A CompletePasswordReset whose confirmation mail failed has returned its
\* user, and the new hash is stored.
C17_Witness ==
    /\ last.op = "CompletePasswordReset"
    /\ last.err = "nil"
    /\ last.mail = "failed"
    /\ users[last.user.ID].Password = EncodeToString(BCryptPasswordHasher(<<"q">>))

C18_Step(p, email) ==
    (/\ BeginPasswordReset(p, email, TRUE, FALSE)
     /\ ParseAddress(email).err = "nil"
     /\ Occupied(users, email))
      => /\ last'.op = "BeginPasswordReset"
         /\ last'.mail = "failed"
         /\ last'.err = "nil"

\* C18 as claimed: when BeginPasswordReset has resolved the user and issued
\* the token and the notification then fails (template, recipient or
\* transport), it returns no error.
C18_BeginSwallowsMailFailure ==
    [][\A p \in Procs : \A email \in EmailInputs : C18_Step(p, email)]_vars

C19_Step(p, email, ok) ==
    BeginPasswordReset(p, email, ok[1], ok[2])
      => /\ users' = users
         /\ (ParseAddress(email).err = "nil" /\ ~Occupied(users, email))
              => /\ last' = [NoCall EXCEPT !.op = "BeginPasswordReset", !.email = email,
                                           !.err = "ErrIncorrectAuth"]
                 /\ nonces' = nonces
         /\ (ParseAddress(email).err = "nil" /\ Occupied(users, email) /\ ~ok[1])
              => last' = [NoCall EXCEPT !.op = "BeginPasswordReset", !.email = email,
                                        !.err = "nonce: new failed"]

\* C19: a BeginPasswordReset for an address that no row holds returns
\* ErrIncorrectAuth and issues no token; one whose token issuance fails
\* returns the error of the issuance; in both cases no mail is tried and the
\* table is unchanged.
C19_BeginFailsBeforeSideChannel ==
    [][\A p \in Procs : \A email \in EmailInputs : \A ok \in BeginInputs :
          C19_Step(p, email, ok)]_vars

\* A BeginPasswordReset for an address without a row has been refused while
\* the table has rows.
C19_Witness ==
    /\ last.op = "BeginPasswordReset"
    /\ last.err = "ErrIncorrectAuth"
    /\ last.mail = "none"
    /\ users # <<>>
    /\ nonces = <<>>

C20_Step(kind, route, f) ==
    ServeHTTP(kind, route, f[1], f[2])
      => /\ req'.pc = "next"
         /\ req'.trace[Len(req'.trace)] = "next"
         /\ req'.rctx.kind = "authCtx"
         /\ ~req'.rctx.ctx.nil
         /\ req'.rctx.ctx.User =
               IF session.user.kind = "User" THEN session.user.u ELSE ZeroUser

\* C20 as claimed: for every request ServeHTTP puts an auth context into the
\* request's context whose User is the session's "user" value when that is a
\* User and the zero User otherwise, and calls the next handler.
C20_MiddlewareNeverFails ==
    [][\A kind \in CtxInputs : \A route \in RouteInputs : \A f \in LoginInputs :
          C20_Step(kind, route, f)]_vars

\* C21 as claimed: a request whose next handler has been called and has
\* returned has had its session saved by ServeHTTP before the call and again
\* after the return.
C21_SessionSavedBeforeAndAfter ==
    LET t == req.trace IN
    (\E k \in DOMAIN t : t[k] = "return")
      => \E i, j, k, l \in DOMAIN t :
            /\ i < j /\ j < k /\ k < l
            /\ t[i] = "Save" /\ t[j] = "next" /\ t[k] = "return" /\ t[l] = "Save"

\* Every row has the identifier it is stored under, which is not the nil one.
IdsSound(store) ==
    \A i \in DOMAIN store : store[i].ID = i /\ store[i].ID # UuidNil

C22_Step ==
    /\ IdsSound(users')
    /\ \A i \in DOMAIN users : i \in DOMAIN users' /\ users'[i].ID = users[i].ID
    /\ DOMAIN users' # DOMAIN users
         => \E p \in Procs :
               /\ NewUserLocalSaveStep(p)
               /\ DOMAIN users' = DOMAIN users \cup {NewV4(users)}
               /\ NewV4(users) \notin DOMAIN users
               /\ last'.user.ID = NewV4(users)

\* C22: every row has an id that is not the nil one and that no other row
\* has; no step changes the id of a row or removes a row; a row is added only
\* by the save of a NewUserLocal, under an id that uuid.NewV4 generated then,
\* never under an id a caller supplied.
C22_IdsGeneratedUniqueImmutable ==
    /\ IdsSound(users)
    /\ [][C22_Step]_vars

\* A second row has been registered and an UpdateUser of the first has been
\* saved since.
C22_Witness ==
    /\ Len(users) = 2
    /\ last.op = "UpdateUser"
    /\ last.err = "nil"
    /\ last.user.ID = 1
    /\ ops = 3

\* The row's email is an address as the parser returns it, and its names are
\* trimmed and not empty.
RowValid(r) ==
    /\ \E e \in EmailInputs : ParseAddress(e).err = "nil" /\ ParseAddress(e).Address = r.Email
    /\ TrimSpace(r.FirstName) = r.FirstName /\ r.FirstName # <<>>
    /\ TrimSpace(r.LastName) = r.LastName /\ r.LastName # <<>>

\* Request p takes the last step of its UpdateUser, the save.
UpdateUserSaveStep(p) ==
    /\ proc[p].pc = "UpdateUser:save"
    /\ proc'[p].pc = "idle"

\* The call of request p returns err and has written nothing.
Refused(err) ==
    /\ last'.err = err
    /\ last'.user = ZeroUser
    /\ users' = users

C23_Step(p) ==
    LET c == proc[p]
        n == Validate(NewUserLocalUser(c.email, c.password, c.firstName, c.lastName,
                                       c.isSuperuser, now))
        u == Validate(c.u)
        r == Validate(CompletePasswordResetUser(c.u, c.password))
    IN
    /\ (NewUserLocalSaveStep(p) /\ n.err # "nil") => Refused(n.err)
    /\ (UpdateUserSaveStep(p) /\ u.err # "nil") => Refused(u.err)
    /\ (CompleteSaveStep(p) /\ r.err # "nil") => Refused(r.err)

\* C23: every row has an email in the form the address parser returns and a
\* first and a last name that are trimmed and not empty; a NewUserLocal,
\* UpdateUser or CompletePasswordReset whose user fails Validate returns
\* Validate's error and writes nothing to the table.
C23_ValidationPrecedesPersist ==
    /\ \A i \in DOMAIN users : RowValid(users[i])
    /\ [][/\ \A i \in DOMAIN users' : RowValid(users'[i])
          /\ \A p \in Procs : C23_Step(p)]_vars

\* An UpdateUser with a padded first name has stored the trimmed name, and an
\* UpdateUser with a blank last name has been refused.
C23_Witness ==
    /\ last.op = "UpdateUser"
    /\ last.err = "ErrInvalidName"
    /\ \E i \in DOMAIN users : users[i].FirstName = <<"N">>

C24_Step(kind, route, f) ==
    ServeHTTP(kind, route, f[1], f[2])
      => LET g == getAuthCtx([kind |-> kind, ctx |-> NewCtx]) IN
         /\ g.err = "nil" => (~g.ctx.nil /\ g.ctx.Data)
         /\ req'.trace # <<"panic">>

\* C24 as claimed: when getAuthCtx returns a nil error, the context it returns
\* is not nil and has its Data map, also when the request's context held no
\* value; ServeHTTP never writes through a nil context.
C24_GetAuthCtxGetsOrCreates ==
    [][\A kind \in CtxInputs : \A route \in RouteInputs : \A f \in LoginInputs :
          C24_Step(kind, route, f)]_vars

\* The request served last was a LoginPost that logged a user in.
LoggedIn == req.route = "loginPost" /\ req.status = 302 /\ req.location = "/"

\* The request served last was a Logout.
LoggedOut == req.route = "logout" /\ req.status = 302

C25_Step(kind, route, f) ==
    (ServeHTTP(kind, route, f[1], f[2]) /\ req'.pc = "next")
      => /\ users' = users /\ nonces' = nonces /\ last' = last /\ ops' = ops
         /\ LoggedIn
              => req'.rctx.ctx.User = AuthenticateUser(users, req.email, req.password).u
         /\ LoggedOut => req'.rctx.ctx.User = ZeroUser

\* C25 as claimed: when ServeHTTP publishes the context of the request that
\* follows a successful LoginPost, the context's User is the user that
\* AuthenticateUser returned to LoginPost; for the request that follows a
\* Logout it is the zero User; ServeHTTP calls no method of the service and
\* leaves the user table and the nonce store as they are.
C25_IdentityThroughSession ==
    [][\A kind \in CtxInputs : \A route \in RouteInputs : \A f \in LoginInputs :
          C25_Step(kind, route, f)]_vars

\* The number of events e among the events t of a request.
RECURSIVE Count(_, _)
Count(t, e) ==
    IF t = <<>> THEN 0 ELSE (IF Head(t) = e THEN 1 ELSE 0) + Count(Tail(t), e)

C26_Step(kept) ==
    (LoginPost(kept)
       /\ AuthenticateUser(users, req.email, req.password).err = "ErrIncorrectAuth")
      => /\ "error" \in session'.flashes
         /\ req'.status = 302 /\ req'.location = "/login"
         /\ Count(req'.trace, "Redirect") = 1
         /\ req'.sess.user = req.sess.user
         /\ session'.user = session.user

\* C26 as claimed: a LoginPost whose AuthenticateUser returns ErrIncorrectAuth
\* queues the error flash, redirects once, to the login page, and leaves the
\* "user" value of the session as it was, in the request's session and in the
\* store.
C26_FailedLoginKeepsIdentity == [][\A kept \in BOOLEAN : C26_Step(kept)]_vars

\* A CompletePasswordReset for the user id has returned without an error.
ResetDone(id) ==
    \E t \in DOMAIN nonces : nonces[t].UserID = id /\ wins[t] > 0

C27_Step(p) ==
    LET c == proc[p]
        id == c.u.ID
    IN
    /\ (DeleteUserSaveStep(p) /\ last'.err = "nil" /\ ResetDone(id))
         => /\ users'[id].IsDeleted
            /\ users'[id].Password = users[id].Password
    /\ (CompleteSaveStep(p) /\ last'.err = "nil" /\ users[id].IsDeleted)
         => /\ users'[id].IsDeleted
            /\ users'[id].Password = EncodeToString(BCryptPasswordHasher(c.password))

\* C27 as claimed: when a DeleteUser returns without an error for a user
\* whose CompletePasswordReset has returned without an error, the row is
\* flagged as deleted and keeps the password that the reset stored; when a
\* CompletePasswordReset returns without an error for a user whose row is
\* flagged as deleted, the row stays flagged and has the hash of the new
\* password; whatever the order of the loads and saves of the two calls.
C27_NoLostUpdate == [][\A p \in Procs : C27_Step(p)]_vars

C28_Step(p) ==
    LET c == proc[p] IN
    /\ (ConsumeStep(p) /\ PresentsValidToken(p))
         => /\ proc'[p].pc = "CompletePasswordReset:save"
            /\ nonces'[c.token].IsUsed
            /\ users' = users
    /\ (CompleteSaveStep(p) /\ ~NonBlank(c.password))
         => /\ last'.op = "CompletePasswordReset"
            /\ last'.err = "ErrInvalidPassword"
            /\ users' = users
            /\ nonces'[c.token].IsUsed
    /\ (ConsumeStep(p) /\ c.token \in DOMAIN nonces /\ nonces[c.token].IsUsed)
         => /\ last'.op = "CompletePasswordReset"
            /\ last'.err = "nonce: invalid token"
            /\ users' = users

NoFailedHash(store) ==
    \A i \in DOMAIN store : store[i].Password # EncodeToString(<<>>)

C29_Step ==
    \A p \in Procs, mailOK \in BOOLEAN :
      /\ \A i \in NewUserLocalInputs :
           NewUserLocalHashed(p, i[1], i[2], i[3], i[4], FALSE, mailOK)
             => /\ last'.op = "NewUserLocal" /\ last'.err # "nil"
                /\ users' = users
      /\ \A token \in TokenInputs, email \in EmailInputs, password \in PasswordInputs :
           CompletePasswordResetHashed(p, token, email, password, FALSE, mailOK)
             => /\ last'.op = "CompletePasswordReset" /\ last'.err # "nil"
                /\ users' = users

\* C29 as claimed: a NewUserLocal or a CompletePasswordReset whose hasher
\* returns an error returns an error and leaves the table as it was, and no
\* row holds the encoding of an empty hash.
C29_HashFailureIsFatal == NoFailedHash(users) /\ [][C29_Step /\ NoFailedHash(users')]_vars

\* C30 as claimed: the password of every row is the encoding of the hasher's
\* output for a plaintext that a caller gave to NewUserLocal or to
\* CompletePasswordReset, never a value that a caller supplied as it is.
C30_StoredPasswordIsHash ==
    \A i \in DOMAIN users :
        \E password \in PasswordInputs :
            users[i].Password = EncodeToString(BCryptPasswordHasher(password))

\* C31 as claimed: the User that NewUserLocal or CompletePasswordReset has
\* returned carries no plaintext password and no new-password flag: both
\* transient fields are at their zero values.
C31_TransientFieldsCleared ==
    last.op \in {"NewUserLocal", "CompletePasswordReset"}
      => /\ last.user.newPassword = FALSE
         /\ last.user.rawPassword = <<>>

====
